---- MODULE Spec2Model ----
(***************************************************************************)
(* A model of the conditional-breakpoint evaluator                         *)
(* (src/src/util/ConditionEvaluator.ts) and of the variable presentation   *)
(* engine (src/unnamed/part_000: handles, StackFrame, Scope, Category,     *)
(* Variable, VariableManager) of vscode-autohotkey-debug.                  *)
(*                                                                         *)
(* A text is a sequence of one-character strings, so that lower-casing,    *)
(* parseInt and String(number) are computed character by character.        *)
(* SpecEval runs one eval call on a parsed condition against a snapshot of *)
(* the debuggee; Spec runs the VariableManager's operations.               *)
(***************************************************************************)
EXTENDS Integers, Sequences, FiniteSets, TLC

VARIABLES
  \* ---- ConditionalEvaluator.eval: one call
  cond,          \* the result of parser.Expression.parse(expression)
  remote,        \* the debuggee's snapshot the session's fetches answer from
  locale,        \* the host's default locale (read by toLocaleLowerCase)
  pcre,          \* what the regex built by createPcre does with the operands
  pc,            \* "start" | "walk" | "done": where the eval call stands
  result,        \* the call's outcome once pc = "done"
  baseDepth,     \* the number of ".base" in baseName
  baseClassNameProperty,  \* the loop variable of the base-chain walk
  walkFetches,   \* the depths whose __class the walk has fetched, in order
  \* ---- the variable presentation engine
  nextHandle,    \* handles._nextHandle
  handleMap,     \* handles._handleMap: id -> the view object (its serial)
  objects,       \* every view object constructed so far, in construction order
  categories,    \* VariableManager.categories
  stops,         \* how often the debuggee has resumed and stopped again
  last,          \* the last request of the host and its outcome
  \* ---- the functions that keep no state
  call,          \* the function called and its arguments
  answer,        \* what the call returned, once it has
  progress       \* where a call that suspends on the session stands

evalVars == <<cond, remote, locale, pcre, pc, result, baseDepth,
              baseClassNameProperty, walkFetches>>

viewVars == <<nextHandle, handleMap, objects, categories, stops, last>>

callVars == <<call, answer, progress>>

vars == <<evalVars, viewVars, callVars>>

\* ------------------------------------------------------------------ bounds
MaxLen == 2
MaxAddr == 2
MaxChain == 3
MaxObjects == 4
MaxProperties == 1
MaxCalls == 2
MaxStops == 1
MaxFrames == 1

\* Handles.START_HANDLE, the first id `new DebugAdapter.Handles()` issues
StartHandle == 1000

\* -------------------------------------------------------------------- text
Chars == {"0", "1", "a", "A"}

RECURSIVE TextsOfLen(_)
TextsOfLen(n) ==
  IF n = 0 THEN {<<>>}
  ELSE {Append(t, c) : t \in TextsOfLen(n - 1), c \in Chars}

\* the texts a remote primitive or a string literal may hold; "I" is the
\* letter whose lower case depends on the locale
Texts == UNION {TextsOfLen(n) : n \in 0..MaxLen} \cup {<<"I">>}

Digits == <<"0", "1", "2", "3", "4", "5", "6", "7", "8", "9">>

\* the value of character c as a digit, 99 when it is none
DigitValue(c) ==
  CASE c = "0" -> 0 [] c = "1" -> 1 [] c = "2" -> 2 [] c = "3" -> 3
    [] c = "4" -> 4 [] c = "5" -> 5 [] c = "6" -> 6 [] c = "7" -> 7
    [] c = "8" -> 8 [] c = "9" -> 9
    [] c \in {"a", "A"} -> 10 [] c \in {"b", "B"} -> 11
    [] c \in {"c", "C"} -> 12 [] c \in {"d", "D"} -> 13
    [] c \in {"e", "E"} -> 14 [] c \in {"f", "F"} -> 15
    [] OTHER -> 99

NaN == [nan |-> TRUE, n |-> 0]

RECURSIVE ParseDigits(_, _, _, _)
\* the digits of text from position i on, read in the radix: acc is the value
\* so far, NaN until a digit has been read
ParseDigits(text, radix, i, acc) ==
  IF i > Len(text) \/ DigitValue(text[i]) >= radix THEN acc
  ELSE ParseDigits(text, radix, i + 1,
                   [nan |-> FALSE, n |-> acc.n * radix + DigitValue(text[i])])

\* JavaScript's parseInt(text, radix): the longest prefix of digits, after a
\* "0x" prefix when the radix is 16; NaN when no digit is read
parseInt(text, radix) ==
  IF radix = 16 /\ Len(text) >= 2 /\ text[1] = "0" /\ text[2] \in {"x", "X"}
  THEN ParseDigits(text, radix, 3, NaN)
  ELSE ParseDigits(text, radix, 1, NaN)

RECURSIVE ToDecimal(_)
\* String(n) of a natural number n
ToDecimal(n) ==
  IF n < 10 THEN <<Digits[n + 1]>>
  ELSE Append(ToDecimal(n \div 10), Digits[(n % 10) + 1])

\* String.prototype.toLowerCase, character by character
LowerChar(c) ==
  CASE c = "A" -> "a" [] c = "I" -> "i" [] c = "N" -> "n" [] c = "O" -> "o"
    [] c = "L" -> "l" [] c = "T" -> "t" [] OTHER -> c

toLowerCase(text) == [i \in 1..Len(text) |-> LowerChar(text[i])]

\* String.prototype.toLocaleLowerCase: in a Turkic locale "I" lower-cases to
\* the dotless i
LocaleLowerChar(c) ==
  IF locale = "tr" /\ c = "I" THEN "dotless_i" ELSE LowerChar(c)

toLocaleLowerCase(text) == [i \in 1..Len(text) |-> LocaleLowerChar(text[i])]

\* the type names and literals of the debuggee, as texts
TString == <<"s", "t", "r", "i", "n", "g">>
TInteger == <<"i", "n", "t", "e", "g", "e", "r">>
TFloat == <<"f", "l", "o", "a", "t">>
TUndefined == <<"u", "n", "d", "e", "f", "i", "n", "e", "d">>
TObject == <<"o", "b", "j", "e", "c", "t">>
TPrimitive == <<"p", "r", "i", "m", "i", "t", "i", "v", "e">>
TNumber == <<"n", "u", "m", "b", "e", "r">>
TInt == <<"i", "n", "t">>
TLike == <<":", "l", "i", "k", "e">>
TObjectColon == <<"o", "b", "j", "e", "c", "t", ":">>
TTrue == <<"t", "r", "u", "e">>

\* ------------------------------------------------- dbgp properties (remote)
\* dbgp.Property | null, as the session's fetches return it
Null ==
  [kind |-> "null", type |-> <<>>, value |-> <<>>, address |-> 0,
   className |-> <<>>, fullName |-> <<>>]

PrimitiveProperty(type, value, fullName) ==
  [kind |-> "primitive", type |-> type, value |-> value, address |-> 0,
   className |-> <<>>, fullName |-> fullName]

ObjectProperty(address, className, fullName) ==
  [kind |-> "object", type |-> TObject, value |-> <<>>, address |-> address,
   className |-> className, fullName |-> fullName]

\* a JavaScript string, as evalValue returns it for a literal
StringValue(text) ==
  [kind |-> "string", type |-> <<>>, value |-> text, address |-> 0,
   className |-> <<>>, fullName |-> <<>>]

\* the two property names a condition of the model mentions
NameA == <<"a">>
NameB == <<"A">>

\* the name `${root}.base. ... .base.__class` with `bases` times ".base", or
\* the plain name `root` (bases = 0, class = FALSE)
PropertyPath(root, bases, class) == [root |-> root, bases |-> bases, class |-> class]

\* session.fetchLatestPropertyWithoutChildren(name): answered from the snapshot
fetchLatestPropertyWithoutChildren(path) ==
  IF path.class
  THEN IF path.root = NameA /\ path.bases \in 1..Len(remote.chain)
       THEN remote.chain[path.bases]
       \* a chain that leads back into itself has a level at every depth
       ELSE IF path.root = NameA /\ path.bases >= 1 /\ remote.endless
       THEN remote.chain[((path.bases - 1) % Len(remote.chain)) + 1]
       ELSE Null
  ELSE IF path.root = NameA THEN remote.a
       ELSE IF path.root = NameB THEN remote.b ELSE Null

\* session.fetchLatestProperty(name): the same property, with its children
fetchLatestProperty(path) == fetchLatestPropertyWithoutChildren(path)

\* ------------------------------------------------------ the parsed condition
\* An operand node of the AST: a PropertyName, or a Primitive that is a String,
\* a Number (Integer or Hex, its value the literal's text) or a Boolean.
PropertyNameNode(name) == [type |-> "PropertyName", sub |-> "", text |-> name]
StringNode(text) == [type |-> "String", sub |-> "", text |-> text]
NumberNode(sub, text) == [type |-> "Number", sub |-> sub, text |-> text]
BooleanNode(text) == [type |-> "Boolean", sub |-> "", text |-> text]
NoNode == [type |-> "", sub |-> "", text |-> <<>>]

\* parser.Expression.parse(expression): a failure, or a success whose value is
\* a bare operand or a BinaryExpression [a, operatorType, b]
ParseFailure ==
  [parsed |-> FALSE, type |-> "", a |-> NoNode, opType |-> "", op |-> "", b |-> NoNode]

BareExpression(node) ==
  [parsed |-> TRUE, type |-> IF node.type = "PropertyName" THEN "PropertyName" ELSE "Primitive",
   a |-> node, opType |-> "", op |-> "", b |-> NoNode]

BinaryExpression(a, opType, op, b) ==
  [parsed |-> TRUE, type |-> "BinaryExpression", a |-> a, opType |-> opType,
   op |-> op, b |-> b]

\* ------------------------------------------------------- operand resolution
\* what an operator compares: a string, a number (an object's address) or null
Str(text) == [t |-> "string", v |-> text, n |-> 0]
Num(n) == [t |-> "number", v |-> <<>>, n |-> n]
NullValue == [t |-> "null", v |-> <<>>, n |-> 0]

\* ConditionalEvaluator.evalValue
evalValue(parsed) ==
  IF parsed.type = "PropertyName"
  THEN fetchLatestPropertyWithoutChildren(PropertyPath(parsed.text, 0, FALSE))
  ELSE IF parsed.type = "String" THEN StringValue(parsed.text)
  ELSE IF parsed.type = "Number"
       THEN IF parsed.sub = "Hex"
            THEN StringValue(ToDecimal(parseInt(parsed.text, 16).n))
            ELSE StringValue(parsed.text)
  \* a Boolean node's value has neither .type nor .value: String(undefined)
  ELSE IF parsed.type = "Boolean" THEN StringValue(TUndefined)
  ELSE Null

\* getValue, local to eval
getValue(parsed) ==
  LET value == evalValue(parsed)
  IN  IF value.kind = "string" THEN Str(value.value)
      ELSE IF value.kind = "object" THEN Num(value.address)
      ELSE IF value.kind = "primitive" THEN Str(value.value)
      ELSE NullValue

\* ---------------------------------------------------- comparison operators
Returned(b) == [kind |-> "value", val |-> b]
Fault == [kind |-> "fault", val |-> FALSE]
Pending == [kind |-> "none", val |-> FALSE]

\* an equality that reads two integer texts as numbers
equalsNormalizing(a, b) ==
  \/ a = b
  \/ /\ a.t = "string" /\ b.t = "string"
     /\ ~parseInt(a.v, 10).nan /\ ~parseInt(b.v, 10).nan
     /\ parseInt(a.v, 10).n = parseInt(b.v, 10).n

equals(a, b) == a = b

equalsIgnoreCase(a, b) ==
  LET containsObjectAddress == a.t = "number" \/ b.t = "number"
  IN  IF containsObjectAddress THEN a = b
      ELSE toLowerCase(a.v) = toLocaleLowerCase(b.v)

\* an inequality that reads a text without a leading integer as 0
inequalityOfZero(sign, a, b) ==
  LET containsObjectAddress == a.t = "number" \/ b.t = "number"
      _a == parseInt(a.v, 10)
      _b == parseInt(b.v, 10)
  IN  IF containsObjectAddress THEN FALSE
      ELSE IF sign = "<" THEN _a.n < _b.n
      ELSE IF sign = "<=" THEN _a.n <= _b.n
      ELSE IF sign = ">" THEN _a.n > _b.n
      ELSE IF sign = ">=" THEN _a.n >= _b.n
      ELSE FALSE

inequality(sign, a, b) ==
  LET containsObjectAddress == a.t = "number" \/ b.t = "number"
      _a == parseInt(a.v, 10)
      _b == parseInt(b.v, 10)
  IN  IF containsObjectAddress THEN FALSE
      ELSE IF _a.nan \/ _b.nan THEN FALSE
      ELSE IF sign = "<" THEN _a.n < _b.n
      ELSE IF sign = "<=" THEN _a.n <= _b.n
      ELSE IF sign = ">" THEN _a.n > _b.n
      ELSE IF sign = ">=" THEN _a.n >= _b.n
      ELSE FALSE

\* regexCompare: the regex is built by createPcre (pcre-to-regexp), which
\* raises on a pattern or flags it cannot compile
regexCompare(input, ahkRegex) ==
  LET containsObjectAddress == input.t = "number" \/ ahkRegex.t = "number"
  IN  IF containsObjectAddress THEN Returned(FALSE)
      ELSE IF pcre = "error" THEN Fault
      ELSE Returned(pcre = "match")

ComparisonOperatorNames == {"=", "==", "!=", "!==", "~=", "<", "<=", ">", ">="}

\* comparisonOperators[operatorType.value](a, b)
comparisonOperators(op, a, b) ==
  CASE op = "=" -> Returned(equalsIgnoreCase(a, b))
    [] op = "==" -> Returned(equals(a, b))
    [] op = "!=" -> Returned(~equalsIgnoreCase(a, b))
    [] op = "!==" -> Returned(~equals(a, b))
    [] op = "~=" -> regexCompare(a, b)
    [] OTHER -> Returned(inequality(op, a, b))

\* ---------------------------------------------------------- the is operator
IsWordChar(c) == c \notin {":", ".", " "}

\* whether /(?<=\b)int(?=\b)/ matches the (lower-cased) text at position i
MatchesIntAt(text, i) ==
  /\ i + 2 <= Len(text)
  /\ SubSeq(text, i, i + 2) = TInt
  /\ (i = 1 \/ ~IsWordChar(text[i - 1]))
  /\ (i + 2 = Len(text) \/ ~IsWordChar(text[i + 3]))

\* text.replace(/(?<=\b)int(?=\b)/ui, 'integer'): the first match only
ReplaceInt(text) ==
  IF \E i \in 1..Len(text) : MatchesIntAt(text, i)
  THEN LET i == CHOOSE k \in 1..Len(text) :
                  MatchesIntAt(text, k) /\ \A j \in 1..(k - 1) : ~MatchesIntAt(text, j)
       IN  SubSeq(text, 1, i - 1) \o TInteger \o SubSeq(text, i + 3, Len(text))
  ELSE text

startsWith(text, prefix) ==
  Len(prefix) <= Len(text) /\ SubSeq(text, 1, Len(prefix)) = prefix

includes(text, c) == \E i \in 1..Len(text) : text[i] = c

\* a type-name test that only compares the declared type
IsDeclaredType(valueA, valueB) == valueA.type = ReplaceInt(toLowerCase(valueB.value))

\* the type-name test of `is`: valueA a property, valueB a primitive property
\* or a string
IsTypeName(valueA, valueB) ==
  LET typeName == ReplaceInt(toLowerCase(valueB.value))
      className == SubSeq(typeName, Len(TObjectColon) + 1, Len(typeName))
      isIntegerLike == ~parseInt(valueA.value, 10).nan
      isFloatLike == isIntegerLike /\ includes(valueA.value, ".")
      isNumberLike == isIntegerLike \/ isFloatLike
  IN  IF valueA.type = typeName THEN TRUE
      ELSE IF typeName = TPrimitive
           THEN valueA.type \in {TString, TInteger, TFloat}
      ELSE IF typeName = TNumber
           THEN valueA.type \in {TInteger, TFloat}
      ELSE IF valueA.kind = "object" /\ startsWith(typeName, TObjectColon)
           THEN toLowerCase(className) = toLowerCase(valueA.className)
      ELSE IF valueA.kind = "primitive"
           THEN IF typeName = TInteger \o TLike /\ isIntegerLike THEN TRUE
                ELSE IF typeName = TFloat \o TLike /\ isFloatLike THEN TRUE
                ELSE typeName = TNumber \o TLike /\ isNumberLike
      ELSE FALSE

\* both operands of `is` are object properties: the base-chain walk decides
IsObjectPair(valueA, valueB) == valueA.kind = "object" /\ valueB.kind = "object"

\* `result` of the IsOperator branch when no walk is needed
IsResult(valueA, valueB) ==
  IF valueA.kind \in {"primitive", "object"} /\ valueB.kind \in {"primitive", "string"}
  THEN IsTypeName(valueA, valueB)
  ELSE IF valueA.kind = "null" /\ valueB.kind = "string" /\ valueB.value = TUndefined
  THEN TRUE
  ELSE FALSE

\* -1 < operatorType.value.search(/not/ui)
negativeMode(op) == op = "is not"

\* an end of the IsOperator branch that drops the negation
IsReturnUnnegated(op, res) == Returned(res)

\* a test of a level's __class that takes any class name for a match
ClassMatchesAnyName(valueB, fetched) == fetched.kind = "primitive"

\* the walk's test of one level: baseClassNameProperty is a PrimitiveProperty
\* and valueB.fullName === baseClassNameProperty.value
ClassMatches(valueB, fetched) ==
  fetched.kind = "primitive" /\ valueB.fullName = fetched.value

\* the end of the IsOperator branch: if (negativeMode) return !result
IsReturn(op, res) == Returned(IF negativeMode(op) THEN ~res ELSE res)

\* a truthiness that takes only the empty text for false
TruthinessOfNonEmpty(primitiveValue) == Returned(primitiveValue # <<>>)

\* the end of eval: if (typeof primitiveValue === 'string') ...
Truthiness(primitiveValue) ==
  IF primitiveValue = <<"0">> THEN Returned(FALSE)
  ELSE Returned(primitiveValue # <<>>)

\* eval's PropertyName branch: a bare property name
BarePropertyName(propertyName) ==
  LET property == fetchLatestProperty(PropertyPath(propertyName, 0, FALSE))
  IN  IF property.kind = "primitive" THEN Truthiness(property.value)
      \* (property as dbgp.ObjectProperty).address on null raises a TypeError
      ELSE IF property.kind = "null" THEN Fault
      ELSE Truthiness(ToDecimal(property.address))

\* eval's ComparisonOperator branch
CompareExpression(a, op, b) ==
  LET _a == getValue(a)
      _b == getValue(b)
  IN  IF _a.t # "null" /\ _b.t # "null" THEN comparisonOperators(op, _a, _b)
      \* falls through with primitiveValue undefined
      ELSE Returned(FALSE)

\* ConditionalEvaluator.eval, all of it but the base-chain walk
evalOutcome ==
  IF ~cond.parsed THEN Returned(FALSE)
  ELSE IF cond.type = "BinaryExpression"
       THEN IF cond.opType = "ComparisonOperator"
            THEN CompareExpression(cond.a, cond.op, cond.b)
            ELSE IsReturn(cond.op, IsResult(evalValue(cond.a), evalValue(cond.b)))
  ELSE IF cond.type = "PropertyName" THEN BarePropertyName(cond.a.text)
  \* a Primitive: the String's, the Number's or the Boolean's text
  ELSE Truthiness(cond.a.text)

NeedsWalk ==
  /\ cond.parsed /\ cond.type = "BinaryExpression" /\ cond.opType = "IsOperator"
  /\ IsObjectPair(evalValue(cond.a), evalValue(cond.b))

\* ------------------------------------------------------------ eval: actions
\* eval from its call to its return, when it does not walk a base chain
Eval ==
  /\ pc = "start"
  /\ ~NeedsWalk
  /\ result' = evalOutcome
  /\ pc' = "done"
  /\ UNCHANGED <<cond, remote, locale, pcre, baseDepth, baseClassNameProperty, walkFetches>>
  /\ UNCHANGED <<viewVars, callVars>>

\* eval up to the loop of the walk: baseName = `${valueA.fullName}.base` and
\* the first fetch of `${baseName}.__class`
EvalWalkStart ==
  /\ pc = "start"
  /\ NeedsWalk
  /\ baseDepth' = 1
  /\ baseClassNameProperty' =
       fetchLatestPropertyWithoutChildren(PropertyPath(evalValue(cond.a).fullName, 1, TRUE))
  /\ walkFetches' = <<1>>
  /\ pc' = "walk"
  /\ UNCHANGED <<cond, remote, locale, pcre, result>>
  /\ UNCHANGED <<viewVars, callVars>>

\* the most levels the walk is followed for
MaxDepth == 5

\* a step to the next level that stays at the level it is at
sameBase(depth) == depth

\* baseName += '.base'
appendBase(depth) == depth + 1

\* one iteration of while (baseClassNameProperty !== null)
WalkIterate ==
  /\ pc = "walk"
  /\ baseClassNameProperty.kind # "null"
  /\ baseDepth <= MaxDepth
  /\ LET valueA == evalValue(cond.a)
         valueB == evalValue(cond.b)
         fetched == fetchLatestPropertyWithoutChildren(
                      PropertyPath(valueA.fullName, baseDepth, TRUE))
     IN  /\ baseClassNameProperty' = fetched
         /\ walkFetches' = Append(walkFetches, baseDepth)
         /\ IF ClassMatches(valueB, fetched)
            THEN /\ result' = IsReturn(cond.op, TRUE)
                 /\ pc' = "done"
                 /\ UNCHANGED baseDepth
            ELSE /\ baseDepth' = appendBase(baseDepth)
                 /\ UNCHANGED <<result, pc>>
  /\ UNCHANGED <<cond, remote, locale, pcre>>
  /\ UNCHANGED <<viewVars, callVars>>

\* the loop's condition fails: result is still false
WalkExit ==
  /\ pc = "walk"
  /\ baseClassNameProperty.kind = "null"
  /\ result' = IsReturn(cond.op, FALSE)
  /\ pc' = "done"
  /\ UNCHANGED <<cond, remote, locale, pcre, baseDepth, baseClassNameProperty, walkFetches>>
  /\ UNCHANGED <<viewVars, callVars>>

\* ------------------------------------------------------- eval: the inputs
Locales == {"en", "tr"}
PcreOutcomes == {"match", "nomatch", "error"}
ClassNames == {<<"A">>, <<"a">>}

IsDigitText(t) == Len(t) > 0 /\ \A i \in 1..Len(t) : t[i] \in {"0", "1"}
\* the texts of integer values, and of integer literals (which may lead with 0)
IntegerTexts == {t \in Texts : IsDigitText(t) /\ (Len(t) = 1 \/ t[1] # "0")}
IntegerLiterals == {t \in Texts : IsDigitText(t)}
FloatTexts == {<<"1", ".", "0">>}
HexLiterals == {<<"0", "x", "1", "0">>, <<"0", "x", "A">>}

\* the names the right operand of `is` may spell
TypeNameTexts ==
  {TInteger, TInt, <<"I", "n", "t">>, TString, TFloat, TUndefined, TObject,
   TPrimitive, TNumber, TObjectColon \o <<"A">>, TObjectColon \o <<"a">>,
   TInteger \o TLike, TInt \o TLike, TFloat \o TLike, TNumber \o TLike, <<"a">>}

ObjectsNamed(name) ==
  {ObjectProperty(addr, cn, name) : addr \in 1..MaxAddr, cn \in ClassNames}

PrimitivesNamed(name) ==
  {PrimitiveProperty(TString, t, name) : t \in Texts \cup FloatTexts}
    \cup {PrimitiveProperty(TInteger, t, name) : t \in IntegerTexts}
    \cup {PrimitiveProperty(TFloat, t, name) : t \in FloatTexts}
    \cup {PrimitiveProperty(TUndefined, <<>>, name)}

\* what a fetch of the property `name` may return
PropertiesNamed(name) == {Null} \cup ObjectsNamed(name) \cup PrimitivesNamed(name)

\* what a fetch of one level's __class may return: nothing, the class's name,
\* or an object
ChainLevels ==
  {Null} \cup {PrimitiveProperty(TString, cn, <<>>) : cn \in ClassNames}
         \cup {ObjectProperty(1, <<"A">>, <<>>)}

RECURSIVE ChainsOfLen(_)
ChainsOfLen(n) ==
  IF n = 0 THEN {<<>>}
  ELSE {Append(ch, l) : ch \in ChainsOfLen(n - 1), l \in ChainLevels}

\* the __class of `a.base`, `a.base.base`, ...: every deeper level is absent
Chains == UNION {ChainsOfLen(n) : n \in 0..MaxChain}

Snapshot(a, b, chain) == [a |-> a, b |-> b, chain |-> chain, endless |-> FALSE]

\* the same, the last level's base being the first level again
EndlessSnapshot(a, b, chain) == [a |-> a, b |-> b, chain |-> chain, endless |-> TRUE]

\* the String and Number literals an operand may be
LiteralNodes ==
  {StringNode(t) : t \in Texts}
    \cup {NumberNode("Integer", t) : t \in IntegerLiterals}
    \cup {NumberNode("Hex", t) : t \in HexLiterals}

\* a bare literal may also be a Boolean (its value the literal's text)
BareLiteralNodes == LiteralNodes \cup {BooleanNode(TTrue)}

\* an operand with what the snapshot holds for it: <<node, property>>
ComparedProperties(name) ==
  {Null} \cup {ObjectProperty(addr, <<"A">>, name) : addr \in 1..MaxAddr}
         \cup {PrimitiveProperty(TString, t, name) : t \in Texts}

LeftCompared ==
  {<<PropertyNameNode(NameA), p>> : p \in ComparedProperties(NameA)}
    \cup {<<n, Null>> : n \in {NumberNode("Hex", t) : t \in HexLiterals}
                               \cup {StringNode(<<"1">>)}}

RightCompared ==
  {<<PropertyNameNode(NameB), p>> : p \in ComparedProperties(NameB)}
    \cup {<<n, Null>> : n \in LiteralNodes}

LeftTyped ==
  {<<PropertyNameNode(NameA), p>> : p \in PropertiesNamed(NameA)}
    \cup {<<n, Null>> : n \in {StringNode(<<"1">>), NumberNode("Integer", <<"1">>)}}

RightTyped ==
  {<<PropertyNameNode(NameB), p>> :
      p \in {Null} \cup ObjectsNamed(NameB)
                   \cup {PrimitiveProperty(TString, t, NameB) : t \in TypeNameTexts}}
    \cup {<<n, Null>> : n \in {StringNode(t) : t \in TypeNameTexts}}

\* a bare expression, or a text the parser rejects
InitBare ==
  /\ \/ /\ cond = BareExpression(PropertyNameNode(NameA))
        /\ \E p \in PropertiesNamed(NameA) : remote = Snapshot(p, Null, <<>>)
     \/ /\ cond \in {ParseFailure} \cup {BareExpression(n) : n \in BareLiteralNodes}
        /\ remote = Snapshot(Null, Null, <<>>)
  /\ locale = "en"
  /\ pcre = "nomatch"

\* a comparison
InitCompare ==
  \E op \in ComparisonOperatorNames, l \in LeftCompared, r \in RightCompared :
    /\ cond = BinaryExpression(l[1], "ComparisonOperator", op, r[1])
    /\ remote = Snapshot(l[2], r[2], <<>>)
    /\ locale \in (IF op \in {"=", "!="} THEN Locales ELSE {"en"})
    /\ pcre \in (IF op = "~=" THEN PcreOutcomes ELSE {"nomatch"})

\* `is` and `is not`
InitIs ==
  \E op \in {"is", "is not"}, l \in LeftTyped, r \in RightTyped :
    /\ cond = BinaryExpression(l[1], "IsOperator", op, r[1])
    /\ \E chain \in (IF IsObjectPair(l[2], r[2]) THEN Chains ELSE {<<>>}) :
         remote = Snapshot(l[2], r[2], chain)
    /\ locale = "en"
    /\ pcre = "nomatch"

\* ===================================================== claims: the evaluator
Done == pc = "done"

IsBare == cond.parsed /\ cond.type \in {"PropertyName", "Primitive"}
IsBinary == cond.parsed /\ cond.type = "BinaryExpression"
IsComparison == IsBinary /\ cond.opType = "ComparisonOperator"
IsIs == IsBinary /\ cond.opType = "IsOperator"

\* a property-name operand whose fetch returned null
LeftUnresolved == cond.a.type = "PropertyName" /\ remote.a.kind = "null"
RightUnresolved == cond.b.type = "PropertyName" /\ remote.b.kind = "null"

\* C1: eval never raises: whatever the condition text and whatever the
\* fetches return, eval completes with a boolean and not with a fault.
C1_EvalNeverRaises == Done => result.kind = "value"

\* what a bare expression resolves to, when that is a primitive text
BarePrimitiveText ==
  IF cond.type = "PropertyName"
  THEN IF remote.a.kind = "primitive" THEN <<remote.a.value>> ELSE <<>>
  ELSE <<cond.a.text>>

RightIsUndefinedLiteral == cond.b.type = "String" /\ cond.b.text = TUndefined

\* C7 as stated: with an unresolved property-name operand a binary condition
\* is false, for every comparison operator and for `is` and `is not`, except
\* that an unresolved left operand tested with `is undefined` is true.
C7_UnresolvedOperandIsFalse ==
  (Done /\ IsBinary /\ (LeftUnresolved \/ RightUnresolved)) =>
    result = Returned(cond.op = "is" /\ LeftUnresolved /\ RightIsUndefinedLiteral)

\* C7 as amended: with an unresolved property-name operand every comparison
\* operator returns false and `is` returns false, except that an unresolved
\* left operand tested with `is undefined` is true; `is not` returns the
\* negation of what `is` returns: true, except `is not undefined` on an
\* unresolved left operand, which is false.
C7_UnresolvedOperand ==
  (Done /\ IsBinary /\ (LeftUnresolved \/ RightUnresolved)) =>
    LET isUndefined == LeftUnresolved /\ RightIsUndefinedLiteral
    IN  result = Returned(CASE IsComparison -> FALSE
                            [] cond.op = "is" -> isUndefined
                            [] OTHER -> ~isUndefined)

C7_Witness ==
  /\ Done /\ IsIs /\ cond.op = "is not"
  /\ LeftUnresolved /\ ~RightIsUndefinedLiteral
  /\ result = Returned(TRUE)

\* the levels of the left object's base chain, and those the right object's
\* name is the __class of
ChainLevelNames == 1..Len(remote.chain)
MatchingLevels ==
  {k \in ChainLevelNames :
     remote.chain[k].kind = "primitive" /\ remote.chain[k].value = remote.b.fullName}
\* the first level whose __class fetch returns nothing (past the chain's end
\* when every level has one)
FirstClasslessLevel ==
  IF \E k \in ChainLevelNames : remote.chain[k].kind = "null"
  THEN CHOOSE k \in ChainLevelNames :
         remote.chain[k].kind = "null" /\ \A j \in 1..(k - 1) : remote.chain[j].kind # "null"
  ELSE Len(remote.chain) + 1

BothObjects == remote.a.kind = "object" /\ remote.b.kind = "object"
               /\ cond.a.type = "PropertyName" /\ cond.b.type = "PropertyName"

\* C8 as stated: between two objects, `obj is ParentClass` is true iff
\* ParentClass's name is the __class of some level of obj's base chain, and
\* false for every finite chain without such a level.
C8_IsAnyLevelOfChain ==
  (Done /\ IsIs /\ cond.op = "is" /\ BothObjects) =>
    result = Returned(MatchingLevels # {})

\* C8 as amended: between two objects, `obj is ParentClass` is true iff
\* ParentClass's name is the primitive __class of some level of obj's base
\* chain that lies before the first level whose __class fetch returns
\* nothing; otherwise it is false.
C8_IsLevelBeforeClassless ==
  (Done /\ IsIs /\ cond.op = "is" /\ BothObjects) =>
    result = Returned(\E k \in MatchingLevels : k < FirstClasslessLevel)

C8_Witness ==
  /\ Done /\ IsIs /\ cond.op = "is" /\ BothObjects
  /\ \E k \in MatchingLevels : k > 1 /\ k < FirstClasslessLevel
  /\ result = Returned(TRUE)

\* the two operands of a comparison, resolved
LeftValue == getValue(cond.a)
RightValue == getValue(cond.b)
BothResolved == LeftValue.t # "null" /\ RightValue.t # "null"
BothAddresses == LeftValue.t = "number" /\ RightValue.t = "number"
BothTexts == LeftValue.t = "string" /\ RightValue.t = "string"

\* C9: for `==` with both operands resolved the result is equality of the
\* addresses when both are object addresses, and otherwise exact,
\* case-sensitive equality of the texts with no numeric normalization (an
\* address is no text, and equals none); with a = "1", `a == 1` is true and
\* `a == 01` is false.
C9_ExactEquality ==
  (Done /\ IsComparison /\ cond.op = "==" /\ BothResolved) =>
    /\ BothAddresses => result = Returned(remote.a.address = remote.b.address)
    /\ BothTexts =>
         result = Returned(/\ Len(LeftValue.v) = Len(RightValue.v)
                           /\ \A i \in 1..Len(LeftValue.v) : LeftValue.v[i] = RightValue.v[i])
    /\ (~BothAddresses /\ ~BothTexts) => result = Returned(FALSE)
    /\ (cond.a.type = "PropertyName" /\ remote.a.kind = "primitive"
          /\ remote.a.value = <<"1">> /\ cond.b.type = "Number") =>
         result = Returned(cond.b.text = <<"1">>)

C9_Witness ==
  /\ Done /\ IsComparison /\ cond.op = "=="
  /\ cond.a.type = "PropertyName" /\ remote.a.kind = "primitive" /\ remote.a.value = <<"1">>
  /\ cond.b = NumberNode("Integer", <<"0", "1">>)
  /\ result = Returned(FALSE)

\* two characters that are the same letter in either case
SameLetter(c, d) ==
  c = d \/ {c, d} = {"a", "A"} \/ {c, d} = {"i", "I"}

CaseInsensitiveEqual(s, t) ==
  Len(s) = Len(t) /\ \A i \in 1..Len(s) : SameLetter(s[i], t[i])

\* C10: for `=` with both operands resolved the result is exact equality of
\* the two operands if either is an object address, and otherwise
\* case-insensitive equality of their texts.
C10_CaseInsensitiveEquality ==
  (Done /\ IsComparison /\ cond.op = "=" /\ BothResolved) =>
    IF LeftValue.t = "number" \/ RightValue.t = "number"
    THEN result = Returned(BothAddresses /\ LeftValue.n = RightValue.n)
    ELSE result = Returned(CaseInsensitiveEqual(LeftValue.v, RightValue.v))

\* ============================================== the variable presentation
\* A dbgp property as the presentation engine reads it: primitive or object,
\* an object with the children the session delivered with it (none when its
\* children were not loaded), a child with its index key and with whether
\* its full name holds "<enum>".
Leaf(kind, isIndexKey, index, isEnum) ==
  [kind |-> kind, children |-> <<>>, isIndexKey |-> isIndexKey, index |-> index,
   isEnum |-> isEnum]

\* the children one object may be delivered with
ChildProperties ==
  {Leaf("primitive", TRUE, 1, FALSE), Leaf("object", FALSE, 0, FALSE),
   Leaf("object", FALSE, 0, TRUE)}

RECURSIVE ListsOfLen(_, _)
ListsOfLen(S, n) ==
  IF n = 0 THEN {<<>>}
  ELSE {Append(l, x) : l \in ListsOfLen(S, n - 1), x \in S}

ListsUpTo(S, n) == UNION {ListsOfLen(S, k) : k \in 0..n}

ChildLists == ListsUpTo(ChildProperties, MaxProperties)

\* a property of a context, or the answer to evaluate or fetchProperty
TopProperties ==
  {Leaf("primitive", FALSE, 0, FALSE), Leaf("object", FALSE, 0, FALSE)}
    \cup {[Leaf("object", FALSE, 0, FALSE) EXCEPT !.children =
             <<Leaf("primitive", TRUE, 1, FALSE)>>]}

NoProperty == Leaf("none", FALSE, 0, FALSE)

\* the names of the contexts of a frame (sendContextNamesCommand)
ContextNames == <<"Local", "Global">>

\* CategoryData: label and source (the matchers are applied to the list a
\* Category returns, not to what it constructs)
CategoryData(label, source) == [label |-> label, source |-> source]

\* VariableManager.categories after normalizeCategories: undefined, or a list
NoCategories == [defined |-> FALSE, list |-> <<>>]
CategoriesOf(list) == [defined |-> TRUE, list |-> list]
CategoryConfigurations ==
  {NoCategories, CategoriesOf(<<CategoryData("Global", "global")>>),
   CategoriesOf(<<CategoryData("All", "*")>>)}

\* ---------------------------------------------------------------- handles
\* The registry with the log of constructed objects, as one value.
Heap(next, map, log) == [next |-> next, map |-> map, log |-> log]

\* a create that does not advance _nextHandle
HandlesCreateWithoutAdvance(h, value) ==
  [id |-> h.next, heap |-> Heap(h.next, (h.next :> value) @@ h.map, h.log)]

\* handles.create(value): the id issued, and the registry after it
HandlesCreate(h, value) ==
  [id |-> h.next,
   heap |-> Heap(h.next + 1, (h.next :> value) @@ h.map, h.log)]

\* handles.get(handle): the value stored under the handle, 0 for undefined
HandlesGet(map, handle) ==
  IF handle \in DOMAIN map THEN map[handle] ELSE 0

\* A view object. `ref` is its id or variablesReference, `serial` its place
\* in the order of construction (its identity), `stop` the stop of the
\* debuggee it was made in.
ViewObject(kind, ref, serial, property, name, scopes) ==
  [kind |-> kind, ref |-> ref, serial |-> serial, stop |-> stops,
   property |-> property, name |-> name, scopes |-> scopes,
   hasChildren |-> property.kind = "object",
   isLoadedChildren |-> property.kind = "object" /\ 0 < Len(property.children)]

\* new StackFrame(session, dbgpStackFrame): this.id = handles.create(this)
StackFrame(h) ==
  LET serial == Len(h.log) + 1
      created == HandlesCreate(h, serial)
  IN  [created.heap EXCEPT !.log =
         Append(@, ViewObject("StackFrame", created.id, serial, NoProperty, "", <<>>))]

\* new Scope(session, context): this.variablesReference = handles.create(this)
Scope(h, contextName) ==
  LET serial == Len(h.log) + 1
      created == HandlesCreate(h, serial)
  IN  [created.heap EXCEPT !.log =
         Append(@, ViewObject("Scope", created.id, serial, NoProperty, contextName, <<>>))]

\* new Category(scopes, categoryData)
Category(h, scopes, categoryData) ==
  LET serial == Len(h.log) + 1
      created == HandlesCreate(h, serial)
  IN  [created.heap EXCEPT !.log =
         Append(@, ViewObject("Category", created.id, serial, NoProperty,
                              categoryData.source, scopes))]

\* a Variable that registers itself whatever property it wraps
VariableAlwaysRegistered(h, property) ==
  LET serial == Len(h.log) + 1
      created == HandlesCreate(h, serial)
  IN  [created.heap EXCEPT !.log =
         Append(@, ViewObject("Variable", created.id, serial, property, "", <<>>))]

\* new Variable(session, property):
\* this.variablesReference = this.hasChildren ? handles.create(this) : 0
Variable(h, property) ==
  LET serial == Len(h.log) + 1
      hasChildren == property.kind = "object"
      created == IF hasChildren THEN HandlesCreate(h, serial)
                 ELSE [id |-> 0, heap |-> h]
  IN  [created.heap EXCEPT !.log =
         Append(@, ViewObject("Variable", created.id, serial, property, "", <<>>))]

RECURSIVE Variables(_, _)
\* properties.map((property) => new Variable(this.session, property))
Variables(h, properties) ==
  IF properties = <<>> THEN h
  ELSE Variables(Variable(h, Head(properties)), Tail(properties))

RECURSIVE Scopes(_, _)
\* for await (const context of contexts) scopes.push(new Scope(session, context))
Scopes(h, contexts) ==
  IF contexts = <<>> THEN h
  ELSE Scopes(Scope(h, Head(contexts)), Tail(contexts))

RECURSIVE Categories(_, _, _)
\* for (const categoryData of this.categories) scopes.push(new Category(...))
Categories(h, scopes, list) ==
  IF list = <<>> THEN h
  ELSE Categories(Category(h, scopes, Head(list)), scopes, Tail(list))

\* the serials of the objects constructed from heap h to heap g
Constructed(h, g) == [i \in 1..(Len(g.log) - Len(h.log)) |-> Len(h.log) + i]

\* ------------------------------------------------- VariableManager lookups
\* a lookup without the instanceof test
LookupOfAnyKind(handle, kinds) == HandlesGet(handleMap, handle)

\* the view object a handle resolves to, when it is of one of the kinds
Lookup(handle, kinds) ==
  LET serial == HandlesGet(handleMap, handle)
  IN  IF serial # 0 /\ objects[serial].kind \in kinds THEN serial ELSE 0

getScope(variableReference) == Lookup(variableReference, {"Scope", "Category"})
getObjectVariable(variableReference) == Lookup(variableReference, {"Variable"})
getStackFrame(frameId) == Lookup(frameId, {"StackFrame"})

\* equalsIgnoreCase of ./stringUtils, on the names of scopes and sources
LowerName(name) ==
  CASE name = "Local" -> "local" [] name = "Global" -> "global" [] OTHER -> name

NameEqualsIgnoreCase(a, b) == LowerName(a) = LowerName(b)

\* --------------------------------------------------- Variable.createChildren
NoFilter == [filter |-> "", start |-> 0, count |-> 0]
\* DebugProtocol.VariablesArguments: filter, start and count
VariablesArguments ==
  {NoFilter, [filter |-> "named", start |-> 0, count |-> 0],
   [filter |-> "indexed", start |-> 0, count |-> 1]}

\* a test of the child whose window begins at args.start itself
KeepsChildFromStart(property, args) ==
  /\ ~property.isEnum
  /\ args.filter = "named" => ~property.isIndexKey
  /\ args.filter = "indexed" =>
       /\ property.isIndexKey
       /\ args.start <= property.index /\ property.index <= args.start + args.count

\* the body of createChildren's loop up to `new Variable`: whether the child
\* is kept
KeepsChild(property, args) ==
  /\ ~property.isEnum
  /\ args.filter = "named" => ~property.isIndexKey
  /\ args.filter = "indexed" =>
       /\ property.isIndexKey
       /\ LET index == property.index
              start == args.start + 1
              end == args.start + args.count
          IN  start <= index /\ index <= end

\* a createChildren that reads the children the Variable was made with and
\* never asks the session
createChildrenWithoutFetch(h, serial, args, reloadedProperty) ==
  LET this == h.log[serial]
      Kept(property) == KeepsChild(property, args)
  IN  [heap |-> Variables(h, SelectSeq(this.property.children, Kept)), fetches |-> 0]

\* Variable.createChildren(args) of the Variable `serial`, the session
\* answering a fetchProperty with `reloadedProperty`: the heap after it and
\* the number of fetches it issued
createChildren(h, serial, args, reloadedProperty) ==
  LET this == h.log[serial]
      fetches == IF this.isLoadedChildren THEN 0 ELSE 1
      children == IF ~this.isLoadedChildren /\ reloadedProperty.kind = "object"
                  THEN reloadedProperty.children
                  ELSE this.property.children
      Kept(property) == KeepsChild(property, args)
  IN  [heap |-> Variables(h, SelectSeq(children, Kept)), fetches |-> fetches]

\* the scopes a Category draws from: those its source names, or all for "*"
SourceScopes(h, category) ==
  LET IsSource(scope) ==
        category.name = "*" \/ NameEqualsIgnoreCase(h.log[scope].name, category.name)
  IN  SelectSeq(category.scopes, IsSource)

RECURSIVE ScopesVariables(_, _, _)
\* for await (const scope of sourceScopes)
\*   sourceVariables.push(...await scope.createVariables(args)),
\* the session answering the i-th sendContextGetCommand with answers[i]
ScopesVariables(h, sourceScopes, answers) ==
  IF sourceScopes = <<>> THEN h
  ELSE ScopesVariables(Variables(h, Head(answers)), Tail(sourceScopes), Tail(answers))

\* Scope.createVariables(args), the session answering sendContextGetCommand
\* with `properties`
ScopeCreateVariables(h, properties) == Variables(h, properties)

\* Category.createVariables(args) of a Category without matchers
CategoryCreateVariables(h, category, answers) ==
  ScopesVariables(h, SourceScopes(h, category), answers)

RECURSIVE StackFrames(_, _)
\* dbgpStackFrames.map((dbgpStackFrame) => new StackFrame(session, dbgpStackFrame))
StackFrames(h, n) ==
  IF n = 0 THEN h ELSE StackFrames(StackFrame(h), n - 1)

\* ------------------------------------------------ the host's requests
\* The last request and its answer. `fetches` is kept for createChildren: the
\* number of fetches issued by each of the consecutive calls made on the same
\* Variable with the same arguments, this call last.
Request(op, ref, outcome, returned) ==
  [op |-> op, ref |-> ref, outcome |-> outcome, returned |-> returned,
   args |-> NoFilter, fetches |-> <<>>]

NoRequest == Request("", 0, "", <<>>)

CurrentHeap == Heap(nextHandle, handleMap, objects)

Install(g) ==
  /\ Len(g.log) <= MaxObjects
  /\ nextHandle' = g.next
  /\ handleMap' = g.map
  /\ objects' = g.log

\* the handles a request may carry: every id issued, 0, and an id not issued
RequestHandles == DOMAIN handleMap \cup {0, nextHandle}

\* what fetchProperty(context, fullName, 1) may answer
ReloadedProperties ==
  {Leaf("primitive", FALSE, 0, FALSE)}
    \cup {[Leaf("object", FALSE, 0, FALSE) EXCEPT !.children = l] : l \in ChildLists}

\* what sendContextGetCommand may answer
PropertyLists == ListsUpTo(TopProperties, MaxProperties)

\* VariableManager.createStackFrames
createStackFrames ==
  /\ \E n \in 1..MaxFrames :
       LET g == StackFrames(CurrentHeap, n)
       IN  /\ Install(g)
           /\ last' = Request("createStackFrames", 0, "ok", Constructed(CurrentHeap, g))
  /\ UNCHANGED <<categories, stops, evalVars, callVars>>

\* VariableManager.createScopes(frameId), with createDefaultScopes
createScopes ==
  /\ \E frameId \in RequestHandles :
       LET stackFrame == getStackFrame(frameId)
           h == CurrentHeap
           defaultScopes == Scopes(h, ContextNames)
           g == IF ~categories.defined THEN defaultScopes
                ELSE Categories(defaultScopes, Constructed(h, defaultScopes), categories.list)
       IN  IF stackFrame = 0
           \* throw Error('')
           THEN /\ last' = Request("createScopes", frameId, "fault", <<>>)
                /\ UNCHANGED <<nextHandle, handleMap, objects>>
           ELSE /\ Install(g)
                /\ last' = Request("createScopes", frameId, "ok",
                                   IF ~categories.defined THEN Constructed(h, g)
                                   ELSE Constructed(defaultScopes, g))
  /\ UNCHANGED <<categories, stops, evalVars, callVars>>

\* VariableManager.createVariables(args)
createVariables ==
  /\ \E ref \in RequestHandles :
       LET variable == getObjectVariable(ref)
           scope == getScope(ref)
           h == CurrentHeap
       IN  IF variable # 0
           THEN \E args \in VariablesArguments,
                   reloadedProperty \in
                        (IF objects[variable].isLoadedChildren THEN {NoProperty}
                         ELSE ReloadedProperties) :
                     LET done == createChildren(h, variable, args, reloadedProperty)
                         earlier == IF /\ last.fetches # <<>>
                                       /\ last.ref = ref
                                       /\ last.args = args
                                    THEN last.fetches ELSE <<>>
                     IN  /\ Len(earlier) < MaxCalls
                         /\ Install(done.heap)
                         /\ last' = [Request("createVariables", ref, "ok",
                                             Constructed(h, done.heap))
                                       EXCEPT !.args = args,
                                              !.fetches = Append(earlier, done.fetches)]
           \* a Scope and a Category do not read args
           ELSE IF scope # 0
           THEN /\ \E answers \in
                        ListsOfLen(PropertyLists,
                                   IF objects[scope].kind = "Scope" THEN 1
                                   ELSE Len(SourceScopes(h, objects[scope]))) :
                     LET g == IF objects[scope].kind = "Scope"
                              THEN ScopeCreateVariables(h, answers[1])
                              ELSE CategoryCreateVariables(h, objects[scope], answers)
                     IN  /\ Install(g)
                         /\ last' = Request("createVariables", ref, "ok", Constructed(h, g))
           \* scope?.createVariables(args) of undefined
           ELSE /\ last' = Request("createVariables", ref, "absent", <<>>)
                /\ UNCHANGED <<nextHandle, handleMap, objects>>
  /\ UNCHANGED <<categories, stops, evalVars, callVars>>

\* VariableManager.evaluate(name, stackFrame)
evaluate ==
  /\ \E property \in {NoProperty} \cup TopProperties :
       IF property = NoProperty
       THEN /\ last' = Request("evaluate", 0, "absent", <<>>)
            /\ UNCHANGED <<nextHandle, handleMap, objects>>
       ELSE LET g == Variable(CurrentHeap, property)
            IN  /\ Install(g)
                /\ last' = Request("evaluate", 0, "ok", Constructed(CurrentHeap, g))
  /\ UNCHANGED <<categories, stops, evalVars, callVars>>

\* the answer of a lookup: the object found, or undefined
Answer(op, ref, found) ==
  Request(op, ref, IF found = 0 THEN "absent" ELSE "ok",
          IF found = 0 THEN <<>> ELSE <<found>>)

\* a call of VariableManager.getScope
GetScope ==
  /\ \E ref \in RequestHandles : last' = Answer("getScope", ref, getScope(ref))
  /\ UNCHANGED <<nextHandle, handleMap, objects, categories, stops, evalVars, callVars>>

\* a call of VariableManager.getObjectVariable
GetObjectVariable ==
  /\ \E ref \in RequestHandles :
       last' = Answer("getObjectVariable", ref, getObjectVariable(ref))
  /\ UNCHANGED <<nextHandle, handleMap, objects, categories, stops, evalVars, callVars>>

\* a call of VariableManager.getStackFrame
GetStackFrame ==
  /\ \E ref \in RequestHandles : last' = Answer("getStackFrame", ref, getStackFrame(ref))
  /\ UNCHANGED <<nextHandle, handleMap, objects, categories, stops, evalVars, callVars>>

\* the debuggee resumes and stops again: nothing of the engine is reset
Resume ==
  /\ stops < MaxStops
  /\ stops' = stops + 1
  /\ last' = NoRequest
  /\ UNCHANGED <<nextHandle, handleMap, objects, categories, evalVars, callVars>>

\* -------------------------------------------------------- specifications
\* the engine as `new VariableManager(session, categories)` leaves it
\* no function that keeps no state is being called
NoCall == [fn |-> "", arg |-> 0]
NoAnswer == [done |-> FALSE, value |-> 0]
Answered(value) == [done |-> TRUE, value |-> value]
NoProgress == [pc |-> "idle"]
InitCall == call = NoCall /\ answer = NoAnswer /\ progress = NoProgress

InitView ==
  /\ nextHandle = StartHandle
  /\ handleMap = [id \in {} |-> 0]
  /\ objects = <<>>
  /\ stops = 0
  /\ last = NoRequest

InitEval ==
  /\ InitBare \/ InitCompare \/ InitIs
  /\ InitView
  /\ InitCall
  /\ categories = NoCategories
  /\ pc = "start"
  /\ result = Pending
  /\ baseDepth = 0
  /\ baseClassNameProperty = Null
  /\ walkFetches = <<>>

NextEval == Eval \/ EvalWalkStart \/ WalkIterate \/ WalkExit

SpecEval == InitEval /\ [][NextEval]_vars

Init ==
  /\ InitView
  /\ InitCall
  /\ categories \in CategoryConfigurations
  /\ cond = ParseFailure
  /\ remote = Snapshot(Null, Null, <<>>)
  /\ locale = "en"
  /\ pcre = "nomatch"
  /\ pc = "idle"
  /\ result = Pending
  /\ baseDepth = 0
  /\ baseClassNameProperty = Null
  /\ walkFetches = <<>>

Next ==
  \/ createStackFrames
  \/ createScopes
  \/ createVariables
  \/ evaluate
  \/ GetScope
  \/ GetObjectVariable
  \/ GetStackFrame
  \/ Resume

Spec == Init /\ [][Next]_vars

\* ========================================== claims: the presentation engine
\* the serials of the view objects constructed so far
Serials == 1..Len(objects)
\* the ids the registry has issued
Issued == {objects[i].ref : i \in Serials} \ {0}
\* the view object is registered: a StackFrame, a Scope, a Category, or a
\* Variable of an object property
Registers(o) == o.kind # "Variable" \/ o.hasChildren
LookupOps == {"getScope", "getObjectVariable", "getStackFrame"}
\* the kinds an operation resolves its handle to
KindsNeeded(op) ==
  CASE op = "getScope" -> {"Scope", "Category"}
    [] op = "getObjectVariable" -> {"Variable"}
    [] op = "getStackFrame" -> {"StackFrame"}
    [] op = "createScopes" -> {"StackFrame"}
    [] op = "createVariables" -> {"Scope", "Category", "Variable"}
    [] OTHER -> {}
\* the kind stored under a handle, "" when the handle was never issued
StoredKind(handle) ==
  IF handle \in DOMAIN handleMap THEN objects[handleMap[handle]].kind ELSE ""

\* C3: across createStackFrames, createScopes, createVariables and evaluate
\* the registry issues strictly increasing ids, none of them twice, removes
\* none, and a lookup of an id never issued finds nothing.
C3_RegistryMonotone ==
  /\ \A i, j \in Serials :
       (i < j /\ objects[i].ref # 0 /\ objects[j].ref # 0) => objects[i].ref < objects[j].ref
  /\ \A id \in Issued : StartHandle <= id /\ id < nextHandle
  /\ DOMAIN handleMap = Issued
  /\ \A id \in {0, StartHandle - 1, nextHandle, nextHandle + 1} :
       getScope(id) = 0 /\ getObjectVariable(id) = 0 /\ getStackFrame(id) = 0
  /\ (last.op \in LookupOps /\ last.ref \notin Issued) => last.outcome = "absent"

C3_Witness ==
  /\ last.op = "getObjectVariable" /\ last.ref = nextHandle /\ last.outcome = "absent"
  /\ Cardinality(Issued) >= 3
  /\ \E i \in Serials : objects[i].kind = "Variable" /\ objects[i].ref # 0

\* C4 as stated: every view object created, whatever property a Variable
\* wraps, is registered under a fresh handle that keeps resolving to it.
C4_EveryObjectRegistered ==
  \A i \in Serials :
    /\ objects[i].ref # 0
    /\ HandlesGet(handleMap, objects[i].ref) = i

\* C4 as amended: every StackFrame, Scope and Category, and every Variable of
\* an object property, is registered at creation under a handle no earlier
\* object has, and that handle keeps resolving to it, also after the debuggee
\* has resumed and stopped again; a Variable of a primitive property is not
\* registered: its reference is 0, which resolves to nothing.
C4_RegisteredExceptPrimitives ==
  \A i \in Serials :
    IF Registers(objects[i])
    THEN /\ objects[i].ref # 0
         /\ \A j \in 1..(i - 1) : objects[j].ref # objects[i].ref
         /\ HandlesGet(handleMap, objects[i].ref) = i
    ELSE /\ objects[i].ref = 0
         /\ HandlesGet(handleMap, 0) = 0

C4_Witness ==
  /\ stops > 0
  /\ \E i, j \in Serials :
       /\ objects[i].kind = "Variable" /\ ~objects[i].hasChildren /\ objects[i].ref = 0
       /\ objects[j].kind = "Variable" /\ objects[j].stop < stops
       /\ last.op = "getObjectVariable" /\ last.ref = objects[j].ref
       /\ last.returned = <<j>>

\* the last request was a createChildren call on a Variable whose children
\* were not loaded
ExpandedUnloaded ==
  /\ last.fetches # <<>>
  /\ ~objects[handleMap[last.ref]].isLoadedChildren

\* C5 as stated: on a Variable whose children are not loaded the first
\* createChildren call issues exactly one fetch and every later call with
\* the same arguments issues none.
C5_OnlyFirstCallFetches ==
  ExpandedUnloaded =>
    /\ last.fetches[1] = 1
    /\ \A k \in 2..Len(last.fetches) : last.fetches[k] = 0

\* C5 as amended: on a Variable whose children are not loaded every
\* createChildren call, the first and each later one with the same
\* arguments, issues exactly one depth-1 fetch; on a Variable whose children
\* are loaded no call issues any.
C5_EveryCallFetches ==
  last.fetches # <<>> =>
    \A k \in 1..Len(last.fetches) :
      last.fetches[k] = IF objects[handleMap[last.ref]].isLoadedChildren THEN 0 ELSE 1

C5_Witness ==
  /\ ExpandedUnloaded
  /\ Len(last.fetches) = MaxCalls
  /\ last.fetches[MaxCalls] = 1

\* the last request carried a registered handle whose stored kind is not one
\* the operation needs
KindMismatch ==
  /\ last.op \in LookupOps \cup {"createScopes", "createVariables"}
  /\ last.ref \in DOMAIN handleMap
  /\ StoredKind(last.ref) \notin KindsNeeded(last.op)

\* C6 as stated: createScopes with a frame id never registered as a stack
\* frame, and every handle-resolving operation on a registered handle of the
\* wrong kind, end in a fault; every other absence is an absent result.
C6_KindMismatchFaults ==
  /\ (last.op = "createScopes" /\ StoredKind(last.ref) # "StackFrame") =>
       last.outcome = "fault"
  /\ KindMismatch => last.outcome = "fault"
  /\ (last.outcome = "fault") =>
       (KindMismatch \/ (last.op = "createScopes" /\ StoredKind(last.ref) # "StackFrame"))

\* C6 as amended: the one fault is createScopes with a frame id that does
\* not resolve to a StackFrame (never registered, or registered as another
\* kind); getScope, getObjectVariable, getStackFrame and createVariables
\* given a handle never registered or of another kind than they need, and
\* evaluate of a name that does not resolve, yield an absent result.
C6_OnlyCreateScopesFaults ==
  /\ last.outcome = "fault" <=>
       (last.op = "createScopes" /\ StoredKind(last.ref) # "StackFrame")
  /\ (last.op \in LookupOps \cup {"createVariables"}) =>
       (last.outcome = "absent" <=> StoredKind(last.ref) \notin KindsNeeded(last.op))
  /\ last.op = "evaluate" => last.outcome \in {"ok", "absent"}

C6_Witness ==
  /\ KindMismatch
  /\ last.op = "getScope" /\ StoredKind(last.ref) = "StackFrame"
  /\ last.outcome = "absent"

\* ================================================ formatProperty
\* the number of children formatProperty reads: children.slice(0, 100)
SliceEnd == 100
\* the length at which it appends the marker: children.length === 100
MarkedLength == 100

\* A child as formatProperty reads it: its name ("base" or another), whether
\* it is a primitive, and its index key.
FormatChild(name, isPrimitive, isIndexKey, index) ==
  [name |-> name, isPrimitive |-> isPrimitive, isIndexKey |-> isIndexKey, index |-> index]

\* the property formatProperty is given
FormatPrimitive == [isObject |-> FALSE, isArray |-> FALSE, children |-> <<>>]
FormatObject(isArray, children) ==
  [isObject |-> TRUE, isArray |-> isArray, children |-> children]

\* The rendered string, as the sequence of its pieces: the opening, one
\* "element" per rendered child (i its place among the children) followed by
\* the separator ", ", the marker, the closing.
Piece(t, i) == [t |-> t, i |-> i]

\* children.slice(0, 100), keeping every child
SliceAll(children) == children

\* children.slice(0, 100)
Slice(children) ==
  IF Len(children) <= SliceEnd THEN children ELSE SubSeq(children, 1, SliceEnd)

\* the loop over the sliced children: a child named "base" is passed over,
\* and in an array every child without an index key; each other child adds
\* its rendering and ", "
RenderChildren(children, isArray) ==
  LET Rendered(i) ==
        /\ children[i].name # "base"
        /\ ~(isArray /\ ~children[i].isIndexKey)
      places == SelectSeq([i \in 1..Len(children) |-> i], Rendered)
  IN  [k \in 1..(2 * Len(places)) |->
         IF k % 2 = 1 THEN Piece("element", places[(k + 1) \div 2])
         ELSE Piece(", ", 0)]

RECURSIVE rtrim(_)
\* rtrim(value, ', '): the trailing ',' and ' ' removed; of the pieces only
\* the separator is made of them
rtrim(value) ==
  IF value # <<>> /\ value[Len(value)].t = ", "
  THEN rtrim(SubSeq(value, 1, Len(value) - 1))
  ELSE value

\* formatProperty(property, ahkVersion)
formatProperty(property) ==
  IF ~property.isObject THEN <<Piece("primitive", 0)>>
  ELSE LET children == Slice(property.children)
           opened == <<Piece("open", 0)>> \o RenderChildren(children, property.isArray)
           marked == IF Len(children) = MarkedLength
                     THEN Append(opened, Piece("...", 0)) ELSE opened
       IN  Append(rtrim(marked), Piece("close", 0))

\* the most children an object is given here
MaxChildren == 150

\* the children of the objects formatted: n children, of one make
ChildrenMakes == {"indexed", "named", "base first", "objects"}
ChildOfMake(make, i) ==
  CASE make = "indexed" -> FormatChild("[i]", TRUE, TRUE, i)
    [] make = "named" -> FormatChild("key", TRUE, FALSE, 0)
    [] make = "base first" ->
         IF i = 1 THEN FormatChild("base", FALSE, FALSE, 0)
         ELSE FormatChild("[i]", TRUE, TRUE, i - 1)
    [] OTHER -> FormatChild("[i]", FALSE, TRUE, i)
ChildrenOfMake(make, n) == [i \in 1..n |-> ChildOfMake(make, i)]

FormatInputs ==
  {FormatPrimitive}
    \cup {FormatObject(isArray, ChildrenOfMake(make, n)) :
            isArray \in BOOLEAN, make \in ChildrenMakes, n \in 0..MaxChildren}

\* the variables of the evaluator and of the presentation engine at rest
InitIdle ==
  /\ InitView
  /\ categories = NoCategories
  /\ cond = ParseFailure
  /\ remote = Snapshot(Null, Null, <<>>)
  /\ locale = "en"
  /\ pcre = "nomatch"
  /\ pc = "idle"
  /\ result = Pending
  /\ baseDepth = 0
  /\ baseClassNameProperty = Null
  /\ walkFetches = <<>>

InitFormat ==
  /\ InitIdle
  /\ \E property \in FormatInputs : call = [fn |-> "formatProperty", arg |-> property]
  /\ answer = NoAnswer
  /\ progress = NoProgress

\* a call of formatProperty
FormatProperty ==
  /\ call.fn = "formatProperty"
  /\ ~answer.done
  /\ answer' = Answered(formatProperty(call.arg))
  /\ UNCHANGED <<call, progress, evalVars, viewVars>>

NextFormat == FormatProperty

SpecFormat == InitFormat /\ [][NextFormat]_vars

\* the places of the children the rendered string shows, in its order
RenderedPlaces(value) ==
  LET IsElement(piece) == piece.t = "element"
      elements == SelectSeq(value, IsElement)
  IN  [k \in 1..Len(elements) |-> elements[k].i]
HasMarker(value) == \E k \in 1..Len(value) : value[k].t = "..."
Formatted == call.fn = "formatProperty" /\ answer.done /\ call.arg.isObject

\* C12: formatProperty on an object enumerates at most the first 100
\* children, in their order, and appends the marker whenever the object has
\* more than 100 children; an array of 150 index-keyed children renders
\* exactly its first 100 elements, then the marker, then the closing.
C12_FirstHundredThenMarker ==
  Formatted =>
    LET value == answer.value
        places == RenderedPlaces(value)
        n == Len(call.arg.children)
    IN  /\ Len(places) <= 100
        /\ \A k \in 1..Len(places) : places[k] <= 100
        /\ \A k \in 1..(Len(places) - 1) : places[k] < places[k + 1]
        /\ n > 100 =>
             /\ HasMarker(value)
             /\ value[Len(value) - 1].t = "..."
        /\ (n > 100 /\ call.arg.isArray
              /\ \A i \in 1..n : call.arg.children[i].isIndexKey
                                   /\ call.arg.children[i].name # "base") =>
             /\ places = [k \in 1..100 |-> k]
             /\ value[Len(value) - 2].t = ", "
             /\ value[Len(value) - 3] = Piece("element", 100)

C12_Witness ==
  /\ Formatted
  /\ call.arg.isArray /\ Len(call.arg.children) = 150
  /\ \A i \in 1..150 : call.arg.children[i].isIndexKey
  /\ Len(RenderedPlaces(answer.value)) = 100
  /\ HasMarker(answer.value)

\* C18: formatProperty appends the marker only when there are children
\* beyond the 100 it enumerates: an object of 100 or fewer children, of
\* exactly 100 too, is rendered without the marker.
C18_MarkerOnlyBeyondHundred ==
  (Formatted /\ Len(call.arg.children) <= 100) => ~HasMarker(answer.value)

\* ============================================ normalizeCategories
\* A matcher (MatcherData); a field left out is "" or FALSE. The pattern is
\* the text a name must begin with (the regular expression ^text).
Matcher(method, ignorecase, pattern, static, builtin, type, className) ==
  [method |-> method, ignorecase |-> ignorecase, pattern |-> pattern,
   static |-> static, builtin |-> builtin, type |-> type, className |-> className]

\* { method: 'exclude', builtin: true } and { builtin: true }
ExcludeBuiltin == Matcher("exclude", FALSE, <<>>, FALSE, TRUE, "", "")
IncludeBuiltin == Matcher("", FALSE, <<>>, FALSE, TRUE, "", "")

\* a CategoryData with matchers
CategoryDataMatching(label, source, matchers) ==
  [label |-> label, source |-> source, matchers |-> matchers]

\* an entry of the caller's list: a string, or a structured descriptor
SelectorEntry(text) == [isString |-> TRUE, text |-> text]
DescriptorEntry(data) == [isString |-> FALSE, data |-> data]

\* the argument of normalizeCategories: undefined, 'Recommend', or a list
CategoriesUndefined == [kind |-> "undefined", list |-> <<>>]
CategoriesRecommend == [kind |-> "Recommend", list |-> <<>>]
CategoriesList(list) == [kind |-> "list", list |-> list]

\* a Recommend whose third category has lost its matcher
RecommendUnmatched ==
  <<CategoryData("Local", "Local"),
    CategoryDataMatching("Global", "Global", <<ExcludeBuiltin>>),
    CategoryData("Built-in Global", "Global")>>

\* what normalizeCategories('Recommend') returns
Recommend ==
  <<CategoryData("Local", "Local"),
    CategoryDataMatching("Global", "Global", <<ExcludeBuiltin>>),
    CategoryDataMatching("Built-in Global", "Global", <<IncludeBuiltin>>)>>

\* a normalization that takes every string for a source
NormalizeAnyEntry(category) ==
  IF ~category.isString THEN <<category.data>>
  ELSE <<CategoryData(category.text, category.text)>>

\* one pass of normalizeCategories' loop: what the entry adds to `normalized`
NormalizeEntry(category) ==
  IF ~category.isString THEN <<category.data>>
  ELSE IF category.text \in {"Global", "Local", "Static"}
       THEN <<CategoryData(category.text, category.text)>>
  ELSE <<>>

RECURSIVE NormalizeList(_)
NormalizeList(list) ==
  IF list = <<>> THEN <<>>
  ELSE NormalizeEntry(Head(list)) \o NormalizeList(Tail(list))

\* VariableManager.normalizeCategories(categories)
normalizeCategories(raw) ==
  IF raw.kind = "undefined" THEN NoCategories
  ELSE IF raw.kind = "Recommend" THEN CategoriesOf(Recommend)
  ELSE CategoriesOf(NormalizeList(raw.list))

\* the longest list a caller supplies
MaxEntries == 3

\* the entries a caller's list may hold
Descriptors ==
  {CategoryData("All", "*"),
   CategoryDataMatching("Mine", "Global", <<ExcludeBuiltin>>)}
ListEntries ==
  {SelectorEntry(t) : t \in {"Local", "Global", "Static", "*", "local"}}
    \cup {DescriptorEntry(d) : d \in Descriptors}

NormalizeInputs ==
  {CategoriesUndefined, CategoriesRecommend}
    \cup {CategoriesList(l) : l \in ListsUpTo(ListEntries, MaxEntries)}

InitNormalize ==
  /\ InitIdle
  /\ \E raw \in NormalizeInputs : call = [fn |-> "normalizeCategories", arg |-> raw]
  /\ answer = NoAnswer
  /\ progress = NoProgress

\* a call of normalizeCategories
NormalizeCategories ==
  /\ call.fn = "normalizeCategories"
  /\ ~answer.done
  /\ answer' = Answered(normalizeCategories(call.arg))
  /\ UNCHANGED <<call, progress, evalVars, viewVars>>

NextNormalize == NormalizeCategories

SpecNormalize == InitNormalize /\ [][NextNormalize]_vars

\* what the claim lets one entry produce
ExpectedOfEntry(entry) ==
  IF ~entry.isString THEN <<entry.data>>
  ELSE IF entry.text = "Local" THEN <<[label |-> "Local", source |-> "Local"]>>
  ELSE IF entry.text = "Global" THEN <<[label |-> "Global", source |-> "Global"]>>
  ELSE IF entry.text = "Static" THEN <<[label |-> "Static", source |-> "Static"]>>
  ELSE <<>>

\* the places in the output where the entries' products begin: the output is
\* the entries' products, one after the other
IsProductOf(list, output) ==
  \E start \in [1..(Len(list) + 1) -> 1..(Len(output) + 1)] :
    /\ start[1] = 1
    /\ start[Len(list) + 1] = Len(output) + 1
    /\ \A i \in 1..Len(list) :
         /\ start[i + 1] = start[i] + Len(ExpectedOfEntry(list[i]))
         /\ \A k \in 1..Len(ExpectedOfEntry(list[i])) :
              output[start[i] + k - 1] = ExpectedOfEntry(list[i])[k]

Normalized == call.fn = "normalizeCategories" /\ answer.done /\ call.arg.kind = "list"

\* C15: normalizeCategories on a caller's list returns, in the order of the
\* list, one single-source category for each keyword Local, Global or Static
\* and each structured descriptor unchanged, once, and nothing for any other
\* entry; the output is never longer than the input.
C15_NormalizedList ==
  Normalized =>
    /\ answer.value.defined
    /\ IsProductOf(call.arg.list, answer.value.list)
    /\ Len(answer.value.list) <= Len(call.arg.list)

C15_Witness ==
  /\ Normalized
  /\ Len(call.arg.list) = 3
  /\ call.arg.list[1] = SelectorEntry("*")
  /\ ~call.arg.list[2].isString
  /\ call.arg.list[3] = SelectorEntry("Static")
  /\ Len(answer.value.list) = 2

\* ======================================== Category.createVariables
UpperLetters ==
  <<"A", "B", "C", "D", "E", "F", "G", "H", "I", "J", "K", "L", "M",
    "N", "O", "P", "Q", "R", "S", "T", "U", "V", "W", "X", "Y", "Z">>
LowerLetters ==
  <<"a", "b", "c", "d", "e", "f", "g", "h", "i", "j", "k", "l", "m",
    "n", "o", "p", "q", "r", "s", "t", "u", "v", "w", "x", "y", "z">>

\* equalsIgnoreCase of ./stringUtils, on the names of variables
NameLowerChar(c) ==
  IF \E i \in 1..26 : UpperLetters[i] = c
  THEN LowerLetters[CHOOSE i \in 1..26 : UpperLetters[i] = c]
  ELSE c
NameToLower(text) == [i \in 1..Len(text) |-> NameLowerChar(text[i])]
TextEqualsIgnoreCase(a, b) == NameToLower(a) = NameToLower(b)

\* a variable as the matchers read it
CategoryVariable(name, facet, type, className) ==
  [name |-> name, facet |-> facet, type |-> type, className |-> className]

\* (/(^A_)|^\d$/ui).test(variable.name)
ReservedName(name) ==
  \/ Len(name) >= 2 /\ name[1] \in {"A", "a"} /\ name[2] = "_"
  \/ Len(name) = 1 /\ DigitValue(name[1]) < 10

\* globalVariableNames: the table of version 2 (of its names the first two
\* and `Integer`), or [ 'ErrorLevel' ]
GlobalVariableNames(mejor) ==
  IF mejor = 2
  THEN {<<"A", "b", "s">>, <<"A", "C", "o", "s">>,
        <<"I", "n", "t", "e", "g", "e", "r">>}
  ELSE {<<"E", "r", "r", "o", "r", "L", "e", "v", "e", "l">>}

\* the tester of matcher.builtin
BuiltinTester(variable, mejor) ==
  \/ variable.facet = "Builtin"
  \/ ReservedName(variable.name)
  \/ \E name \in GlobalVariableNames(mejor) : TextEqualsIgnoreCase(name, variable.name)

\* new RegExp(matcher.pattern, matcher.ignorecase ? 'iu' : 'u').test(name),
\* the pattern being ^text
PatternTester(matcher, name) ==
  /\ Len(name) >= Len(matcher.pattern)
  /\ LET prefix == SubSeq(name, 1, Len(matcher.pattern))
     IN  IF matcher.ignorecase THEN NameToLower(prefix) = NameToLower(matcher.pattern)
         ELSE prefix = matcher.pattern

\* testers.every((tester) => tester()): each tester the matcher configures
MatcherResult(matcher, variable, mejor) ==
  /\ matcher.pattern # <<>> => PatternTester(matcher, variable.name)
  /\ matcher.builtin => BuiltinTester(variable, mejor)
  /\ matcher.static => variable.facet = "Static"
  /\ matcher.type # "" => variable.type = matcher.type
  /\ matcher.className # "" => variable.className = matcher.className

\* a filter that takes every matcher for an including one
KeepsMatching(matcher, variable, mejor) == MatcherResult(matcher, variable, mejor)

\* the filter of one matcher: if (matcher.method === 'exclude') return !result
Keeps(matcher, variable, mejor) ==
  IF matcher.method = "exclude" THEN ~MatcherResult(matcher, variable, mejor)
  ELSE MatcherResult(matcher, variable, mejor)

RECURSIVE ApplyMatchers(_, _, _)
\* for (const matcher of matchers) variables = variables.filter(...)
ApplyMatchers(variables, matchers, mejor) ==
  IF matchers = <<>> THEN variables
  ELSE LET Kept(variable) == Keeps(Head(matchers), variable, mejor)
       IN  ApplyMatchers(SelectSeq(variables, Kept), Tail(matchers), mejor)

\* what Category.createVariables returns for its source variables
CategoryReturn(data, sourceVariables, mejor) ==
  IF "matchers" \notin DOMAIN data THEN sourceVariables
  ELSE ApplyMatchers(sourceVariables, data.matchers, mejor)

\* a selection that takes every scope, whatever the source
EveryScopeName(scopeNames, source) == scopeNames

\* this.scopes.filter(...): the names of the scopes the source selects
SourceScopeNames(scopeNames, source) ==
  LET IsSource(name) == source = "*" \/ NameEqualsIgnoreCase(name, source)
  IN  SelectSeq(scopeNames, IsSource)

\* the most variables a scope holds
MaxVariables == 2

\* the variables of the Global scope
PlainNames ==
  {<<"x">>, <<"x", "A", "_">>, <<"1", "1">>}
BuiltinNames ==
  {<<"A", "_", "x">>, <<"a", "_", "x">>, <<"1">>,
   <<"E", "r", "r", "o", "r", "L", "e", "v", "e", "l">>,
   <<"e", "r", "r", "o", "r", "l", "e", "v", "e", "l">>,
   <<"A", "b", "s">>, <<"a", "B", "S">>}
GlobalVariables ==
  {CategoryVariable(name, "", "string", "") : name \in PlainNames \cup BuiltinNames}
    \cup {CategoryVariable(<<"y">>, "Builtin", "integer", ""),
          CategoryVariable(<<"y">>, "Static", "object", "A")}
LocalVariables == {CategoryVariable(<<"l">>, "", "string", "")}

\* the lists of n distinct elements of S
DistinctLists(S, n) ==
  {l \in ListsOfLen(S, n) : \A i, j \in 1..n : i # j => l[i] # l[j]}

\* what the session holds for the scopes of the frame: one snapshot
ScopeSnapshots ==
  {[name \in {"Local", "Global"} |-> IF name = "Local" THEN l ELSE g] :
     l \in DistinctLists(LocalVariables, 0) \cup DistinctLists(LocalVariables, 1),
     g \in UNION {DistinctLists(GlobalVariables, n) : n \in 0..MaxVariables}}

\* the categories the manager is constructed with
CategoryInputs ==
  {CategoriesUndefined, CategoriesRecommend,
   CategoriesList(<<SelectorEntry("Local"), DescriptorEntry(CategoryData("All", "*")),
                    DescriptorEntry(CategoryData("Lower", "global"))>>),
   CategoriesList(<<DescriptorEntry(CategoryDataMatching("Mine", "Global",
                      <<Matcher("", TRUE, <<"X">>, FALSE, FALSE, "", ""),
                        Matcher("exclude", FALSE, <<>>, TRUE, FALSE, "", "")>>)),
                    SelectorEntry("Static")>>)}

\* where the presentation of the categories stands: the category being
\* expanded, the scopes it has still to fetch, the fetch in flight, the
\* fetches it has received, its source variables, and what the categories
\* expanded so far have returned
Presenting(at, category, pending, inFlight, fetched, sourceVariables, shown) ==
  [pc |-> at, category |-> category, pending |-> pending, inFlight |-> inFlight,
   fetched |-> fetched, sourceVariables |-> sourceVariables, shown |-> shown]

InitCategories ==
  /\ InitIdle
  /\ \E raw \in CategoryInputs, mejor \in {1, 2}, snapshot \in ScopeSnapshots :
       call = [fn |-> "Category.createVariables",
               arg |-> [raw |-> raw, mejor |-> mejor, snapshot |-> snapshot]]
  /\ answer = NoAnswer
  /\ progress = Presenting("new", 0, <<>>, <<>>, <<>>, <<>>, <<>>)

\* the call of createVariables on the k-th Category of the list, or the end
ExpandFrom(list, k, shown) ==
  IF k > Len(list)
  THEN /\ progress' = Presenting("done", k, <<>>, <<>>, <<>>, <<>>, shown)
       /\ answer' = Answered(shown)
  ELSE /\ progress' = Presenting("fetch", k,
                                 SourceScopeNames(ContextNames, list[k].source),
                                 <<>>, <<>>, <<>>, shown)
       /\ UNCHANGED answer

\* new VariableManager(session, categories), and createScopes on a stop
Construct ==
  /\ call.fn = "Category.createVariables"
  /\ progress.pc = "new"
  /\ categories' = normalizeCategories(call.arg.raw)
  /\ ExpandFrom(categories'.list, 1, <<>>)
  /\ UNCHANGED <<call, nextHandle, handleMap, objects, stops, last, evalVars>>

\* Category.createVariables: scope.createVariables(args) sends its
\* sendContextGetCommand, and the call waits for the answer
SendContextGet ==
  /\ progress.pc = "fetch"
  /\ progress.pending # <<>>
  /\ progress' = [progress EXCEPT !.pc = "wait",
                                  !.inFlight = <<Head(progress.pending)>>,
                                  !.pending = Tail(progress.pending)]
  /\ UNCHANGED <<call, answer, viewVars, evalVars>>

\* the answer arrives: sourceVariables.push(...)
ReceiveContext ==
  /\ progress.pc = "wait"
  /\ progress' = [progress EXCEPT
       !.pc = "fetch",
       !.inFlight = <<>>,
       !.fetched = Append(@, progress.inFlight[1]),
       !.sourceVariables = @ \o call.arg.snapshot[progress.inFlight[1]]]
  /\ UNCHANGED <<call, answer, viewVars, evalVars>>

\* every source scope is read: the matchers are applied and the Category
\* returns; the host expands the next Category
ReturnVariables ==
  /\ progress.pc = "fetch"
  /\ progress.pending = <<>>
  /\ LET data == categories.list[progress.category]
         returned == [data |-> data,
                      fetched |-> progress.fetched,
                      sourceVariables |-> progress.sourceVariables,
                      variables |-> CategoryReturn(data, progress.sourceVariables,
                                                   call.arg.mejor)]
     IN  ExpandFrom(categories.list, progress.category + 1,
                    Append(progress.shown, returned))
  /\ UNCHANGED <<call, viewVars, evalVars>>

NextCategories == Construct \/ SendContextGet \/ ReceiveContext \/ ReturnVariables

SpecCategories == InitCategories /\ [][NextCategories]_vars

\* ------------------------------------------------- claims: the categories
Presented == call.fn = "Category.createVariables" /\ answer.done
\* what the expanded categories returned
Shown == answer.value

\* the variable is a built-in one: its facet is Builtin, or its name is a
\* reserved identifier (A_ and more, in either case, or one digit), or its
\* name is, in any letter case, in the table of the version
IsBuiltinVariable(variable, mejor) ==
  \/ variable.facet = "Builtin"
  \/ Len(variable.name) >= 2 /\ NameToLower(variable.name)[1] = "a"
       /\ variable.name[2] = "_"
  \/ Len(variable.name) = 1 /\ variable.name[1] \in {"0", "1", "2", "3", "4", "5", "6", "7", "8", "9"}
  \/ NameToLower(variable.name) \in
       (IF mejor = 2
        THEN {<<"a", "b", "s">>, <<"a", "c", "o", "s">>, <<"i", "n", "t", "e", "g", "e", "r">>}
        ELSE {<<"e", "r", "r", "o", "r", "l", "e", "v", "e", "l">>})

\* the list without the built-in variables
WithoutBuiltin(variables, mejor) ==
  LET Plain(variable) == ~IsBuiltinVariable(variable, mejor)
  IN  SelectSeq(variables, Plain)

HasOneExcludeBuiltin(data) ==
  "matchers" \in DOMAIN data /\ data.matchers = <<ExcludeBuiltin>>

\* C13: Category.createVariables with the single matcher {method: exclude,
\* builtin: true} returns exactly its source variables without every
\* variable whose facet is Builtin, whose name is a reserved identifier, or
\* whose name is (in any letter case) in the table of built-in global names
\* of the active major version; the kept variables stay in source order.
C13_ExcludeBuiltin ==
  Presented =>
    \A k \in 1..Len(Shown) :
      HasOneExcludeBuiltin(Shown[k].data) =>
        Shown[k].variables = WithoutBuiltin(Shown[k].sourceVariables, call.arg.mejor)

C13_Witness ==
  /\ Presented /\ call.arg.mejor = 1
  /\ \E k \in 1..Len(Shown) :
       /\ HasOneExcludeBuiltin(Shown[k].data)
       /\ Len(Shown[k].sourceVariables) = 2
       /\ NameToLower(Shown[k].sourceVariables[1].name) =
            <<"e", "r", "r", "o", "r", "l", "e", "v", "e", "l">>
       /\ Shown[k].variables = <<CategoryVariable(<<"x">>, "", "string", "")>>

\* the scopes of the frame a source selects, in the order they are declared
SelectedScopes(source) ==
  LET Selected(name) ==
        \/ source = "*"
        \/ name = source
        \/ (name = "Local" /\ source = "local")
        \/ (name = "Global" /\ source = "global")
  IN  SelectSeq(ContextNames, Selected)

RECURSIVE Concatenated(_, _)
\* the variables of the scopes, one scope after the other
Concatenated(snapshot, scopes) ==
  IF scopes = <<>> THEN <<>>
  ELSE snapshot[Head(scopes)] \o Concatenated(snapshot, Tail(scopes))

\* C14: Category.createVariables issues exactly one context fetch per
\* selected source scope, in the order the scopes are declared, never two at
\* a time, and its source variables (what it returns before the matchers)
\* are the scopes' variables one scope after the other, each scope's in the
\* order its fetch returned them.
C14_OneFetchPerSourceScope ==
  /\ progress.pc \in {"fetch", "wait", "done", "new"}
  /\ progress.pc = "wait" <=> Len(progress.inFlight) = 1
  /\ Len(progress.inFlight) <= 1
  /\ Presented =>
       \A k \in 1..Len(Shown) :
         /\ Shown[k].fetched = SelectedScopes(Shown[k].data.source)
         /\ Shown[k].sourceVariables = Concatenated(call.arg.snapshot, Shown[k].fetched)
         /\ "matchers" \notin DOMAIN Shown[k].data =>
              Shown[k].variables = Shown[k].sourceVariables

C14_Witness ==
  /\ Presented
  /\ \E k \in 1..Len(Shown) :
       /\ Shown[k].data.source = "*"
       /\ Shown[k].fetched = <<"Local", "Global">>
       /\ Len(call.arg.snapshot["Local"]) = 1
       /\ Len(call.arg.snapshot["Global"]) = 2
       /\ Len(Shown[k].variables) = 3

\* the elements of a list
Elements(list) == {list[i] : i \in 1..Len(list)}

\* C19: under `Recommend`, for one snapshot of the Global scope, the
\* variables of the category "Global" and those of "Built-in Global" are
\* disjoint and together are the Global scope's variables, each list in the
\* scope's order.
C19_RecommendPartitionsGlobal ==
  (Presented /\ call.arg.raw = CategoriesRecommend) =>
    LET global == call.arg.snapshot["Global"]
        plain == Shown[2].variables
        builtin == Shown[3].variables
        InPlain(variable) == variable \in Elements(plain)
        InBuiltin(variable) == variable \in Elements(builtin)
    IN  /\ Shown[2].data.label = "Global" /\ Shown[3].data.label = "Built-in Global"
        /\ Elements(plain) \cap Elements(builtin) = {}
        /\ Elements(plain) \cup Elements(builtin) = Elements(global)
        /\ plain = SelectSeq(global, InPlain)
        /\ builtin = SelectSeq(global, InBuiltin)

C19_Witness ==
  /\ Presented /\ call.arg.raw = CategoriesRecommend
  /\ Len(Shown[2].variables) = 1
  /\ Len(Shown[3].variables) = 1
  /\ Shown[3].variables[1].facet # "Builtin"

\* ================================== Variable.createChildren: the paging
\* the largest index key of an array, and the largest count of a window
MaxIndex == 4
MaxCount == 3

\* for (const property of children) ...: the children createChildren makes
\* Variables of
PagedChildren(children, args) ==
  LET Kept(property) == KeepsChild(property, args)
  IN  SelectSeq(children, Kept)

\* the children of an object that holds, for each index key, no child, a
\* child, or a child whose full name holds "<enum>", after its named children
IndexedChildren(holds) ==
  LET keys == [i \in 1..MaxIndex |-> i]
      Held(i) == holds[i] # "none"
      held == SelectSeq(keys, Held)
  IN  [k \in 1..Len(held) |-> Leaf("primitive", TRUE, held[k], holds[held[k]] = "enum")]

NamedChildren ==
  {<<>>, <<Leaf("object", FALSE, 0, FALSE)>>,
   <<Leaf("primitive", FALSE, 0, FALSE), Leaf("object", FALSE, 0, TRUE)>>}

PagedObjects ==
  {named \o IndexedChildren(holds) :
     named \in NamedChildren, holds \in [1..MaxIndex -> {"none", "child", "enum"}]}

\* the host's requests so far: the indexed windows (0, c), (c, c), ... it has
\* asked for, with what each returned, and the named request
Paging(next, pages, named) ==
  [pc |-> "paging", next |-> next, pages |-> pages, named |-> named]

InitPaging ==
  /\ InitIdle
  /\ \E children \in PagedObjects, count \in 1..MaxCount :
       call = [fn |-> "Variable.createChildren",
               arg |-> [children |-> children, count |-> count]]
  /\ answer = NoAnswer
  /\ progress = Paging(0, <<>>, <<>>)

\* the maxIndex of the object: its largest index key
maxIndex ==
  LET indices == {call.arg.children[j].index : j \in 1..Len(call.arg.children)}
  IN  CHOOSE m \in indices \cup {0} : \A i \in indices : i <= m

\* createChildren({filter: 'indexed', start, count}) for the next window
CreateIndexedChildren ==
  /\ progress.pc = "paging"
  /\ progress.next * call.arg.count < maxIndex
  /\ LET args == [filter |-> "indexed", start |-> progress.next * call.arg.count,
                  count |-> call.arg.count]
     IN  progress' = [progress EXCEPT
           !.next = @ + 1,
           !.pages = Append(@, PagedChildren(call.arg.children, args))]
  /\ UNCHANGED <<call, answer, viewVars, evalVars>>

\* createChildren({filter: 'named'})
CreateNamedChildren ==
  /\ progress.pc = "paging"
  /\ progress.named = <<>>
  /\ LET args == [filter |-> "named", start |-> 0, count |-> 0]
     IN  progress' = [progress EXCEPT
           !.named = <<PagedChildren(call.arg.children, args)>>]
  /\ UNCHANGED <<call, answer, viewVars, evalVars>>

NextPaging == CreateIndexedChildren \/ CreateNamedChildren

SpecPaging == InitPaging /\ [][NextPaging]_vars

\* ---------------------------------------------------- claims: the paging
\* the children with an index key from lo to hi, and those with none, in
\* both cases those whose full name holds no "<enum>"
IndexKeyed(children, lo, hi) ==
  LET InWindow(child) ==
        child.isIndexKey /\ ~child.isEnum /\ lo <= child.index /\ child.index <= hi
  IN  SelectSeq(children, InWindow)
NotIndexKeyed(children) ==
  LET Named(child) == ~child.isIndexKey /\ ~child.isEnum
  IN  SelectSeq(children, Named)

\* every window up to maxIndex has been asked for
AllPagesRequested ==
  call.fn = "Variable.createChildren" /\ progress.next * call.arg.count >= maxIndex

\* the places <<page, position>> a child is returned at
PlacesOf(child) ==
  {<<i, k>> \in (1..Len(progress.pages)) \X (1..MaxIndex) :
     k <= Len(progress.pages[i]) /\ progress.pages[i][k] = child}

\* C20: createChildren with filter `indexed`, start s and count c returns
\* exactly the index-keyed children with index in s+1..s+c, and with filter
\* `named` exactly the children without index key, in both cases without the
\* children whose full name holds `<enum>`; so the windows (0,c), (c,c),
\* (2c,c), ... up to maxIndex return every such index-keyed child of index
\* 1..maxIndex exactly once.
C20_PagingWindows ==
  call.fn = "Variable.createChildren" =>
    LET children == call.arg.children
        c == call.arg.count
    IN  /\ \A i \in 1..Len(progress.pages) :
             progress.pages[i] = IndexKeyed(children, (i - 1) * c + 1, (i - 1) * c + c)
        /\ progress.named # <<>> => progress.named[1] = NotIndexKeyed(children)
        /\ \A j \in 1..Len(children) :
             (children[j].isIndexKey /\ ~children[j].isEnum) =>
               /\ Cardinality(PlacesOf(children[j])) <= 1
               /\ AllPagesRequested => Cardinality(PlacesOf(children[j])) = 1

C20_Witness ==
  /\ AllPagesRequested
  /\ call.arg.count = 2
  /\ Len(progress.pages) = 2
  /\ Len(progress.pages[1]) = 2 /\ Len(progress.pages[2]) = 2
  /\ progress.pages[1][2].index = 2 /\ progress.pages[2][1].index = 3
  /\ progress.named # <<>> /\ Len(progress.named[1]) = 1
  /\ Len(call.arg.children) = 6

\* ============================================= claims: the evaluator, cont.
InequalityOperatorNames == {"<", "<=", ">", ">="}

\* the order the sign names, on two integers
Ordered(sign, m, n) ==
  CASE sign = "<" -> m < n
    [] sign = "<=" -> m <= n
    [] sign = ">" -> m > n
    [] OTHER -> m >= n

\* C11: for `<`, `<=`, `>`, `>=` with both operands resolved both operands
\* are read as base-10 integers (parseInt: the leading run of digits) and
\* compared; when either operand is an object address, or either text has
\* no leading integer (as "a"), the result is false for all four operators,
\* and no error is raised.
C11_IntegerInequality ==
  (Done /\ IsComparison /\ cond.op \in InequalityOperatorNames /\ BothResolved) =>
    LET m == parseInt(LeftValue.v, 10)
        n == parseInt(RightValue.v, 10)
    IN  result = Returned(/\ BothTexts
                          /\ ~m.nan /\ ~n.nan
                          /\ Ordered(cond.op, m.n, n.n))

C11_Witness ==
  /\ Done /\ IsComparison /\ cond.op = ">="
  /\ cond.a.type = "PropertyName" /\ remote.a.kind = "primitive" /\ remote.a.value = <<"a">>
  /\ cond.b = NumberNode("Integer", <<"0">>)
  /\ result = Returned(FALSE)

\* the left operand of `is` resolves to a property, and the right operand is
\* a literal that spells a type name
LeftProperty == evalValue(cond.a)
LeftResolved == LeftProperty.kind \in {"primitive", "object"}
RightIsLiteral == cond.b.type = "String"
\* the literal's name: lower-cased, `int` as a whole word read as `integer`
TypeNameOfLiteral == ReplaceInt(toLowerCase(cond.b.text))

\* the text parses as an integer (it leads with a decimal digit), and as a
\* float (it parses as an integer and holds a `.`)
IntegerShaped(text) == Len(text) > 0 /\ text[1] \in {Digits[i] : i \in 1..10}
FloatShaped(text) == IntegerShaped(text) /\ \E i \in 1..Len(text) : text[i] = "."

TypeNameHolds ==
  LET name == TypeNameOfLiteral
      left == LeftProperty
  IN  \/ name = left.type
      \/ name = TPrimitive /\ left.type \in {TString, TInteger, TFloat}
      \/ name = TNumber /\ left.type \in {TInteger, TFloat}
      \/ /\ left.kind = "object"
         /\ Len(name) >= 7 /\ SubSeq(name, 1, 7) = TObjectColon
         /\ CaseInsensitiveEqual(SubSeq(name, 8, Len(name)), left.className)
      \/ /\ left.kind = "primitive"
         /\ \/ name = TInteger \o TLike /\ IntegerShaped(left.value)
            \/ name = TFloat \o TLike /\ FloatShaped(left.value)
            \/ name = TNumber \o TLike /\ IntegerShaped(left.value)

\* C16: when the left operand of `is` resolves to a property and the right
\* operand is a literal type name, `is` is true if and only if the name
\* (lower-cased, `int` read as `integer`) is left's declared type, or is
\* `primitive` and left's type is string, integer or float, or is `number`
\* and left's type is integer or float, or is `object:<ClassName>` and left
\* is an object whose class name is <ClassName> in any letter case, or is
\* `integer:like`, `float:like` or `number:like` and left is a primitive
\* whose text parses as an integer (for float:like, and holds a `.`),
\* whatever its declared type; `is not` returns the negation.
C16_TypeNameTest ==
  (Done /\ IsIs /\ LeftResolved /\ RightIsLiteral) =>
    result = Returned(IF cond.op = "is" THEN TypeNameHolds ELSE ~TypeNameHolds)

C16_Witness ==
  /\ Done /\ IsIs /\ cond.op = "is" /\ RightIsLiteral
  /\ cond.b.text = TInt \o TLike
  /\ LeftProperty.kind = "primitive" /\ LeftProperty.type = TString
  /\ LeftProperty.value = <<"1", "0">>
  /\ result = Returned(TRUE)

\* ================================================= the base-chain walk alone
\* the chains of at least one level
LevelledChains == UNION {ChainsOfLen(n) : n \in 1..MaxChain}

\* `a is B` and `a is not B` between two objects, over a chain that ends and
\* over one that leads back into itself
InitWalk ==
  /\ \E op \in {"is", "is not"}, a \in ObjectsNamed(NameA), b \in ObjectsNamed(NameB) :
       /\ cond = BinaryExpression(PropertyNameNode(NameA), "IsOperator", op,
                                  PropertyNameNode(NameB))
       /\ \/ \E chain \in Chains : remote = Snapshot(a, b, chain)
          \/ \E chain \in LevelledChains : remote = EndlessSnapshot(a, b, chain)
  /\ locale = "en"
  /\ pcre = "nomatch"
  /\ InitView
  /\ InitCall
  /\ categories = NoCategories
  /\ pc = "start"
  /\ result = Pending
  /\ baseDepth = 0
  /\ baseClassNameProperty = Null
  /\ walkFetches = <<>>

NextWalk == EvalWalkStart \/ WalkIterate \/ WalkExit

\* the session answers every fetch, and eval goes on when it has
SpecWalk == InitWalk /\ [][NextWalk]_vars /\ WF_vars(NextWalk)

\* the level at depth k of the left object's chain
LevelAt(k) ==
  IF k \in 1..Len(remote.chain) THEN remote.chain[k]
  ELSE IF remote.endless THEN remote.chain[((k - 1) % Len(remote.chain)) + 1]
  ELSE Null
LevelMatches(k) ==
  LevelAt(k).kind = "primitive" /\ LevelAt(k).value = remote.b.fullName
\* the level stops the walk: its __class is absent, or is the right object's name
LevelStops(k) == LevelAt(k).kind = "null" \/ LevelMatches(k)
\* every level of the chain has a __class, and none is the right object's name
NeverStops == remote.endless /\ \A k \in 1..Len(remote.chain) : ~LevelStops(k)

\* the depths the fetches of the walk were made at: the first level before
\* the loop, then one level per iteration from the first level on, each one
\* deeper than the one before
WalkedInOrder ==
  /\ pc # "start" => walkFetches # <<>> /\ walkFetches[1] = 1
  /\ \A i \in 2..Len(walkFetches) : walkFetches[i] = i - 1
\* the walk has ended at the first level that stops it, and at no other
EndedAtFirstStop ==
  Done => /\ LevelStops(walkFetches[Len(walkFetches)])
          /\ \A k \in 1..(walkFetches[Len(walkFetches)] - 1) : ~LevelStops(k)

====
